---- MODULE Spec2Model ----
(***************************************************************************)
(* A model of package simplemli (mli.go): the Message Length Indicator     *)
(* codec, its two functions Encode and Decode, and the package-level       *)
(* values they share.                                                      *)
(*                                                                         *)
(* Representation.                                                         *)
(*   - A byte is a number in 0..255; a []byte and a Go string are          *)
(*     sequences of bytes.                                                 *)
(*   - A Go int is 64 bits wide and the model checker's integers are 32    *)
(*     bits wide, so an int v is kept as two limbs [hi, lo] with           *)
(*     v = hi * 2^16 + lo and 0 <= lo < 2^16 (hi carries the sign).        *)
(*   - An error is a name: "nil", the two package-level error values, or   *)
(*     the name of the fmt.Errorf call that builds a fresh error.          *)
(***************************************************************************)
EXTENDS Integers, Sequences, FiniteSets, TLC

VARIABLES
    op,       \* the function called: "Encode" or "Decode"
    key,      \* its argument key
    length,   \* Encode's argument length (an int, as limbs)
    buf,      \* the bytes of Decode's argument *b
    pc,       \* "call" before the function has run, "done" after
    res,      \* what the function returned
    cpc,      \* per caller: position inside its current call
    cargs,    \* per caller: the arguments of its current call
    cret,     \* per caller: what its current call returned
    heap,     \* the byte slices' backing arrays, by address
    pkg       \* the package-level variables empty, ErrByteSize, ErrLength

vars == <<op, key, length, buf, pc, res, cpc, cargs, cret, heap, pkg>>
seqVars == <<op, key, length, buf, pc, res>>
concVars == <<cpc, cargs, cret, heap, pkg>>

----------------------------------------------------------------------------
(* Bounds of the model *)

\* lengths within LenSpread of every pivot are tried as Encode's argument
LenSpread == 7
\* Decode is given buffers up to MaxExtra bytes longer than the widest MLI
MaxExtra == 1
\* the number of concurrent callers
NumCallers == 2

----------------------------------------------------------------------------
(* Program constants: mli.go lines 81-113 *)

Size2I == 2
Size2E == 2
Size4I == 4
Size4E == 4
Size2EE == 2
Size2BCD2 == 4
SizeA4E == 4

MLI2I == "2I"
MLI2E == "2E"
MLI4I == "4I"
MLI4E == "4E"
MLI2EE == "2EE"
MLI2BCD2 == "2BCD2"
MLIA4E == "A4E"

\* var empty = make([]byte, 0)
empty == << >>

\* the package-level error values, and the errors fmt.Errorf builds afresh
ErrByteSize == "ErrByteSize"
ErrLength == "ErrLength"
ErrInvalidType == "Invalid MLI type provided"
ErrBCDDecode == "could not convert hex string to integer"
ErrA4EDecode == "unable to convert string values to integer"
ErrBCDEncode == "unable to convert length to hex binary-coded decimal"

----------------------------------------------------------------------------
(* Go's int, as two limbs *)

Base == 65536

\* the int hi * 2^16 + lo, for any integers hi and lo
Norm(hi, lo) == [hi |-> hi + (lo \div Base), lo |-> lo % Base]

\* an int from a small number
IntOf(n) == Norm(0, n)

\* w + k for a small number k (k may be negative)
AddInt(w, k) == Norm(w.hi, w.lo + k)

\* w < 0
IsNeg(w) == w.hi < 0

\* -w
Neg(w) == Norm(-w.hi, -w.lo)

\* the conversions uint16(w) and uint32(w): the low 16 and 32 bits
ToUint16(w) == w.lo
ToUint32(w) == [hi |-> w.hi % Base, lo |-> w.lo]

\* w / 10 and w % 10 for w >= 0
Div10(w) == [hi |-> w.hi \div 10, lo |-> (((w.hi % 10) * Base) + w.lo) \div 10]
Mod10(w) == (((w.hi % 10) * Base) + w.lo) % 10

----------------------------------------------------------------------------
(* The library functions the codec calls *)

\* binary.BigEndian.PutUint16 / PutUint32 into a fresh slice of that size
PutUint16(v) == << v \div 256, v % 256 >>
PutUint32(w) == << w.hi \div 256, w.hi % 256, w.lo \div 256, w.lo % 256 >>

\* binary.BigEndian.Uint16 / Uint32, then the conversion to int
Uint16(b) == IntOf((b[1] * 256) + b[2])
Uint32(b) == [hi |-> (b[1] * 256) + b[2], lo |-> (b[3] * 256) + b[4]]

\* the decimal digits of w >= 0, as ASCII characters
RECURSIVE Digits(_)
Digits(w) ==
    IF w.hi = 0 /\ w.lo < 10
    THEN << 48 + w.lo >>
    ELSE Append(Digits(Div10(w)), 48 + Mod10(w))

\* s padded on the left with '0' to n characters
RECURSIVE ZeroPad(_, _)
ZeroPad(s, n) == IF Len(s) >= n THEN s ELSE ZeroPad(<<48>> \o s, n)

\* fmt.Sprintf("%04d", w): the sign counts in the width of 4
Sprintf04d(w) ==
    IF IsNeg(w)
    THEN <<45>> \o ZeroPad(Digits(Neg(w)), 3)
    ELSE ZeroPad(Digits(w), 4)

\* one hex digit of a value 0..15, lower case and upper case
HexLower(v) == IF v < 10 THEN 48 + v ELSE 87 + v
HexUpper(v) == IF v < 10 THEN 48 + v ELSE 55 + v

\* hex.EncodeToString(b): two lower-case hex digits per byte
RECURSIVE EncodeToString(_)
EncodeToString(b) ==
    IF b = << >>
    THEN << >>
    ELSE << HexLower(b[1] \div 16), HexLower(b[1] % 16) >> \o EncodeToString(Tail(b))

\* fmt.Sprintf("%X", s) of a string: two upper-case hex digits per byte
RECURSIVE SprintfX(_)
SprintfX(s) ==
    IF s = << >>
    THEN << >>
    ELSE << HexUpper(s[1] \div 16), HexUpper(s[1] % 16) >> \o SprintfX(Tail(s))

\* the value of a hex digit character, 16 when it is not one
FromHexChar(c) ==
    IF c >= 48 /\ c <= 57 THEN c - 48
    ELSE IF c >= 97 /\ c <= 102 THEN c - 87
    ELSE IF c >= 65 /\ c <= 70 THEN c - 55
    ELSE 16

\* hex.DecodeString(s): the bytes decoded before the first bad pair, and an
\* error when a character is not a hex digit or the length is odd
RECURSIVE DecodeString(_)
DecodeString(s) ==
    IF s = << >>
    THEN [b |-> << >>, err |-> FALSE]
    ELSE IF Len(s) = 1
    THEN [b |-> << >>, err |-> TRUE]
    ELSE IF FromHexChar(s[1]) > 15 \/ FromHexChar(s[2]) > 15
    THEN [b |-> << >>, err |-> TRUE]
    ELSE LET rest == DecodeString(Tail(Tail(s)))
         IN  [b |-> << (FromHexChar(s[1]) * 16) + FromHexChar(s[2]) >> \o rest.b,
              err |-> rest.err]

\* the value of a string of decimal digits (empty: 0)
RECURSIVE DigitsValue(_)
DigitsValue(s) ==
    IF s = << >>
    THEN 0
    ELSE (DigitsValue(SubSeq(s, 1, Len(s) - 1)) * 10) + (s[Len(s)] - 48)

IsDigit(c) == c >= 48 /\ c <= 57

\* strconv.Atoi(s) for the short strings the codec parses: an optional sign,
\* then one or more decimal digits
Atoi(s) ==
    LET signed == s # << >> /\ (s[1] = 43 \/ s[1] = 45)
        body == IF signed THEN Tail(s) ELSE s
    IN  IF body = << >> \/ \E i \in 1..Len(body) : ~IsDigit(body[i])
        THEN [n |-> 0, err |-> TRUE]
        ELSE [n |-> IF signed /\ s[1] = 45 THEN -DigitsValue(body) ELSE DigitsValue(body),
              err |-> FALSE]

\* bytes.Count(b, []byte{c}): the number of bytes of b equal to c
Count(b, c) == Cardinality({i \in 1..Len(b) : b[i] = c})

\* unsafeByteToStr: the same bytes, seen as a string
unsafeByteToStr(b) == b

----------------------------------------------------------------------------
(* Decode: mli.go lines 135-251.  The result is [n, err]. *)

Zero == IntOf(0)

\* Decode2I without the early return on a raw value of zero
Decode2INoZero(b) ==
    IF Len(b) # Size2I
    THEN [n |-> Zero, err |-> ErrByteSize]
    ELSE LET n == Uint16(b)
         IN  IF IsNeg(AddInt(n, -Size2I))
             THEN [n |-> Zero, err |-> ErrLength]
             ELSE [n |-> AddInt(n, -Size2I), err |-> "nil"]

Decode2I(b) ==
    IF Len(b) # Size2I
    THEN [n |-> Zero, err |-> ErrByteSize]
    ELSE LET n == Uint16(b)
         IN  IF n = Zero
             THEN [n |-> Zero, err |-> "nil"]
             ELSE IF IsNeg(AddInt(n, -Size2I))
             THEN [n |-> Zero, err |-> ErrLength]
             ELSE [n |-> AddInt(n, -Size2I), err |-> "nil"]

Decode2E(b) ==
    IF Len(b) # Size2E
    THEN [n |-> Zero, err |-> ErrByteSize]
    ELSE [n |-> Uint16(b), err |-> "nil"]

Decode4I(b) ==
    IF Len(b) # Size4I
    THEN [n |-> Zero, err |-> ErrByteSize]
    ELSE LET n == Uint32(b)
         IN  IF n = Zero
             THEN [n |-> Zero, err |-> "nil"]
             ELSE IF IsNeg(AddInt(n, -Size4I))
             THEN [n |-> Zero, err |-> ErrLength]
             ELSE [n |-> AddInt(n, -Size4I), err |-> "nil"]

Decode4E(b) ==
    IF Len(b) # Size4E
    THEN [n |-> Zero, err |-> ErrByteSize]
    ELSE [n |-> Uint32(b), err |-> "nil"]

Decode2EE(b) ==
    IF Len(b) # Size2EE
    THEN [n |-> Zero, err |-> ErrByteSize]
    ELSE [n |-> AddInt(Uint16(b), 2), err |-> "nil"]

Decode2BCD2(b) ==
    IF Len(b) # Size2BCD2
    THEN [n |-> Zero, err |-> ErrByteSize]
    ELSE LET a == Atoi(EncodeToString(SubSeq(b, 3, 4)))
         IN  IF a.err
             THEN [n |-> Zero, err |-> ErrBCDDecode]
             ELSE IF a.n = 0
             THEN [n |-> Zero, err |-> "nil"]
             ELSE IF a.n - Size2BCD2 < 0
             THEN [n |-> Zero, err |-> ErrLength]
             ELSE [n |-> IntOf(a.n - Size2BCD2), err |-> "nil"]

\* DecodeA4E without the check of the buffer's size
DecodeA4ENoSize(b) ==
    IF Count(b, 48) = Len(b)
    THEN [n |-> Zero, err |-> "nil"]
    ELSE LET a == Atoi(unsafeByteToStr(b))
         IN  IF a.err
             THEN [n |-> Zero, err |-> ErrA4EDecode]
             ELSE [n |-> IntOf(a.n), err |-> "nil"]

DecodeA4E(b) ==
    IF Len(b) # SizeA4E
    THEN [n |-> Zero, err |-> ErrByteSize]
    ELSE IF Count(b, 48) = Len(b)
    THEN [n |-> Zero, err |-> "nil"]
    ELSE LET a == Atoi(unsafeByteToStr(b))
         IN  IF a.err
             THEN [n |-> Zero, err |-> ErrA4EDecode]
             ELSE [n |-> IntOf(a.n), err |-> "nil"]

\* the default case returning the size error instead of a fresh error
DecodeDefaultByteSize == [n |-> Zero, err |-> ErrByteSize]

DecodeDefault == [n |-> Zero, err |-> ErrInvalidType]

Decode(k, b) ==
    CASE k = MLI2I    -> Decode2I(b)
      [] k = MLI2E    -> Decode2E(b)
      [] k = MLI4I    -> Decode4I(b)
      [] k = MLI4E    -> Decode4E(b)
      [] k = MLI2EE   -> Decode2EE(b)
      [] k = MLI2BCD2 -> Decode2BCD2(b)
      [] k = MLIA4E   -> DecodeA4E(b)
      [] OTHER        -> DecodeDefault

----------------------------------------------------------------------------
(* Encode: mli.go lines 271-329.  The result is [b, err]. *)

\* Encode2I refusing a length whose adjusted value does not fit 16 bits
Encode2IRangeChecked(l) ==
    IF AddInt(l, Size2I).hi # 0
    THEN [b |-> empty, err |-> ErrLength]
    ELSE [b |-> PutUint16(ToUint16(AddInt(l, Size2I))), err |-> "nil"]

Encode2I(l) == [b |-> PutUint16(ToUint16(AddInt(l, Size2I))), err |-> "nil"]

Encode2E(l) == [b |-> PutUint16(ToUint16(l)), err |-> "nil"]

Encode4I(l) == [b |-> PutUint32(ToUint32(AddInt(l, Size4I))), err |-> "nil"]

Encode4E(l) == [b |-> PutUint32(ToUint32(l)), err |-> "nil"]

\* Encode2EE writing the length with the embedded header still counted
Encode2EEKeepHeader(l) == [b |-> PutUint16(ToUint16(l)), err |-> "nil"]

Encode2EE(l) == [b |-> PutUint16(ToUint16(AddInt(l, -Size2EE))), err |-> "nil"]

\* Encode2BCD2 returning the two BCD bytes without the 2-byte header
Encode2BCD2NoHeader(l) ==
    LET h == DecodeString(Sprintf04d(AddInt(l, Size2BCD2)))
    IN  IF h.err
        THEN [b |-> empty, err |-> ErrBCDEncode]
        ELSE [b |-> h.b, err |-> "nil"]

Encode2BCD2(l) ==
    LET h == DecodeString(Sprintf04d(AddInt(l, Size2BCD2)))
    IN  IF h.err
        THEN [b |-> empty, err |-> ErrBCDEncode]
        ELSE [b |-> << 0, 0 >> \o h.b, err |-> "nil"]

EncodeA4E(l) == [b |-> DecodeString(SprintfX(Sprintf04d(l))).b, err |-> "nil"]

EncodeDefault == [b |-> empty, err |-> ErrInvalidType]

EncodeSwitch(k, l) ==
    CASE k = MLI2I    -> Encode2I(l)
      [] k = MLI2E    -> Encode2E(l)
      [] k = MLI4I    -> Encode4I(l)
      [] k = MLI4E    -> Encode4E(l)
      [] k = MLI2EE   -> Encode2EE(l)
      [] k = MLI2BCD2 -> Encode2BCD2(l)
      [] k = MLIA4E   -> EncodeA4E(l)
      [] OTHER        -> EncodeDefault

\* Encode with the selector examined before the sign of the length
EncodeLateCheck(k, l) ==
    IF k \notin {MLI2I, MLI2E, MLI4I, MLI4E, MLI2EE, MLI2BCD2, MLIA4E}
    THEN EncodeDefault
    ELSE IF IsNeg(l)
    THEN [b |-> empty, err |-> ErrLength]
    ELSE EncodeSwitch(k, l)

Encode(k, l) ==
    IF IsNeg(l)
    THEN [b |-> empty, err |-> ErrLength]
    ELSE EncodeSwitch(k, l)

----------------------------------------------------------------------------
(* The arguments the functions are called with *)

Variants == {MLI2I, MLI2E, MLI4I, MLI4E, MLI2EE, MLI2BCD2, MLIA4E}

\* selectors outside the closed set, among them other spellings of valid ones
Unknown == {"", "bogus", "2i", "a4e"}

Selectors == Variants \cup Unknown

Width(k) ==
    CASE k = MLI2I    -> Size2I
      [] k = MLI2E    -> Size2E
      [] k = MLI4I    -> Size4I
      [] k = MLI4E    -> Size4E
      [] k = MLI2EE   -> Size2EE
      [] k = MLI2BCD2 -> Size2BCD2
      [] k = MLIA4E   -> SizeA4E

MaxWidth == Size4I

\* where the behaviour of some variant changes: 0, the tests' values, 10^4,
\* 2^16, 10^5, 10^6 and 2^32
Pivots ==
    { IntOf(0), IntOf(50), IntOf(284), IntOf(10000), IntOf(65536),
      IntOf(100000), IntOf(1000000), [hi |-> Base, lo |-> 0] }

Lengths == { AddInt(p, d) : p \in Pivots, d \in (-LenSpread)..LenSpread }

\* 0, 1, 2, 4, '+', '-', '0', '1', 'h', 0xff
ByteSamples == {0, 1, 2, 4, 43, 45, 48, 49, 104, 255}

PadBytes == {0, 255}

Buffers ==
    UNION { [1..n -> ByteSamples] : n \in 0..MaxWidth }
    \cup { b \o p : b \in [1..MaxWidth -> ByteSamples],
                    p \in UNION { [1..m -> PadBytes] : m \in 1..MaxExtra } }

----------------------------------------------------------------------------
(* The callers of the concurrent specification *)

Callers == 1..NumCallers

ConcIdle == [c \in Callers |-> "idle"]
NoArgs == [op |-> "none"]
NoRet == [err |-> "none"]

\* heap addresses: 0 is the array of the package's empty slice, c the array
\* of the buffer caller c passes to Decode
EmptyAddr == 0
InAddr(c) == c

\* the array a call's make (or append, or hex.DecodeString) allocates: one
\* that no other call holds
NewAddrShared(c) == NumCallers + 1

NewAddr(c) == NumCallers + c

\* the package as loaded, and no caller inside a call
CallersIdle ==
    /\ cpc = ConcIdle
    /\ cargs = [c \in Callers |-> NoArgs]
    /\ cret = [c \in Callers |-> NoRet]
    /\ heap = [a \in 0..(2 * NumCallers) |-> << >>]
    /\ pkg = [empty |-> EmptyAddr, ErrByteSize |-> ErrByteSize, ErrLength |-> ErrLength]

----------------------------------------------------------------------------
(* One call at a time: the function applied to its arguments *)

Init ==
    /\ pc = "call"
    /\ res = NoRet
    /\ key \in Selectors
    /\ \/ op = "Encode" /\ length \in Lengths /\ buf = << >>
       \/ op = "Decode" /\ length = Zero /\ buf \in Buffers
    /\ CallersIdle

EncodeCall ==
    /\ pc = "call"
    /\ op = "Encode"
    /\ res' = Encode(key, length)
    /\ pc' = "done"
    /\ UNCHANGED <<op, key, length, buf, concVars>>

DecodeCall ==
    /\ pc = "call"
    /\ op = "Decode"
    /\ res' = Decode(key, buf)
    /\ pc' = "done"
    /\ UNCHANGED <<op, key, length, buf, concVars>>

Next == EncodeCall \/ DecodeCall

Spec == Init /\ [][Next]_vars

Encoded == pc = "done" /\ op = "Encode"
Decoded == pc = "done" /\ op = "Decode"

----------------------------------------------------------------------------
(* Concurrent callers: each call is a sequence of steps on the shared heap *)

ConcKeys == {MLI2I, MLI2BCD2, MLIA4E, "bogus"}
ConcLengths == {IntOf(-1), IntOf(43), IntOf(9996)}
ConcBuffers == { << 0, 45 >>, << 0, 0, 2, 136 >>, << 48, 48, 52, 51 >> }

Zeros(n) == [i \in 1..n |-> 0]

\* an error as the running code obtains it: the package-level ones are read
\* from the package's variables
PkgErr(e) ==
    IF e = ErrLength THEN pkg.ErrLength
    ELSE IF e = ErrByteSize THEN pkg.ErrByteSize
    ELSE e

NoSeqCall ==
    /\ op = "none" /\ key = "" /\ length = Zero /\ buf = << >>
    /\ pc = "idle" /\ res = NoRet

ConcInit == NoSeqCall /\ CallersIdle

\* a caller enters Encode(k, l)
CallEncode(c) ==
    /\ cpc[c] = "idle"
    /\ \E k \in ConcKeys, l \in ConcLengths :
          cargs' = [cargs EXCEPT ![c] = [op |-> "Encode", key |-> k, length |-> l]]
    /\ cpc' = [cpc EXCEPT ![c] = "enc_check"]
    /\ UNCHANGED <<seqVars, cret, heap, pkg>>

\* the checks of Encode: on an error it returns the package's empty slice
EncodeCheck(c) ==
    /\ cpc[c] = "enc_check"
    /\ LET r == Encode(cargs[c].key, cargs[c].length)
       IN  IF r.err # "nil"
           THEN /\ cret' = [cret EXCEPT ![c] = [b |-> pkg.empty, err |-> PkgErr(r.err)]]
                /\ cpc' = [cpc EXCEPT ![c] = "returned"]
           ELSE /\ cret' = cret
                /\ cpc' = [cpc EXCEPT ![c] = "enc_make"]
    /\ UNCHANGED <<seqVars, cargs, heap, pkg>>

\* b := make([]byte, Size)
EncodeMake(c) ==
    /\ cpc[c] = "enc_make"
    /\ heap' = [heap EXCEPT ![NewAddr(c)] = Zeros(Width(cargs[c].key))]
    /\ cpc' = [cpc EXCEPT ![c] = "enc_put"]
    /\ UNCHANGED <<seqVars, cargs, cret, pkg>>

\* the bytes are written into b, and b is returned
EncodePut(c) ==
    /\ cpc[c] = "enc_put"
    /\ heap' = [heap EXCEPT ![NewAddr(c)] = Encode(cargs[c].key, cargs[c].length).b]
    /\ cret' = [cret EXCEPT ![c] = [b |-> NewAddr(c), err |-> "nil"]]
    /\ cpc' = [cpc EXCEPT ![c] = "returned"]
    /\ UNCHANGED <<seqVars, cargs, pkg>>

\* a caller enters Decode(k, &b) with a buffer b of its own
CallDecode(c) ==
    /\ cpc[c] = "idle"
    /\ \E k \in ConcKeys, b \in ConcBuffers :
          /\ heap' = [heap EXCEPT ![InAddr(c)] = b]
          /\ cargs' = [cargs EXCEPT ![c] =
                          [op |-> "Decode", key |-> k, b |-> InAddr(c), orig |-> b]]
    /\ cpc' = [cpc EXCEPT ![c] = "dec_size"]
    /\ UNCHANGED <<seqVars, cret, pkg>>

\* a caller enters Decode(k, &empty), as the package's tests do
CallDecodeEmpty(c) ==
    /\ cpc[c] = "idle"
    /\ \E k \in ConcKeys :
          cargs' = [cargs EXCEPT ![c] =
                       [op |-> "Decode", key |-> k, b |-> pkg.empty,
                        orig |-> heap[pkg.empty]]]
    /\ cpc' = [cpc EXCEPT ![c] = "dec_size"]
    /\ UNCHANGED <<seqVars, cret, heap, pkg>>

\* the switch on the key and the check of len(*b)
DecodeSize(c) ==
    /\ cpc[c] = "dec_size"
    /\ LET r == Decode(cargs[c].key, heap[cargs[c].b])
       IN  IF r.err \in {ErrInvalidType, ErrByteSize}
           THEN /\ cret' = [cret EXCEPT ![c] = [n |-> r.n, err |-> PkgErr(r.err)]]
                /\ cpc' = [cpc EXCEPT ![c] = "returned"]
           ELSE /\ cret' = cret
                /\ cpc' = [cpc EXCEPT ![c] = "dec_read"]
    /\ UNCHANGED <<seqVars, cargs, heap, pkg>>

\* the bytes of *b are read and converted
DecodeRead(c) ==
    /\ cpc[c] = "dec_read"
    /\ LET r == Decode(cargs[c].key, heap[cargs[c].b])
       IN  cret' = [cret EXCEPT ![c] = [n |-> r.n, err |-> PkgErr(r.err)]]
    /\ cpc' = [cpc EXCEPT ![c] = "returned"]
    /\ UNCHANGED <<seqVars, cargs, heap, pkg>>

\* the caller is done with the result and with its buffers
Return(c) ==
    /\ cpc[c] = "returned"
    /\ cpc' = [cpc EXCEPT ![c] = "idle"]
    /\ cargs' = [cargs EXCEPT ![c] = NoArgs]
    /\ cret' = [cret EXCEPT ![c] = NoRet]
    /\ heap' = [heap EXCEPT ![InAddr(c)] = << >>, ![NewAddr(c)] = << >>]
    /\ UNCHANGED <<seqVars, pkg>>

ConcNext ==
    \E c \in Callers :
        \/ CallEncode(c)
        \/ EncodeCheck(c)
        \/ EncodeMake(c)
        \/ EncodePut(c)
        \/ CallDecode(c)
        \/ CallDecodeEmpty(c)
        \/ DecodeSize(c)
        \/ DecodeRead(c)
        \/ Return(c)

ConcSpec == ConcInit /\ [][ConcNext]_vars

----------------------------------------------------------------------------
(* Vocabulary of the properties *)

\* w1 < w2 and w1 <= w2 on ints
Less(w1, w2) == w1.hi < w2.hi \/ (w1.hi = w2.hi /\ w1.lo < w2.lo)
Leq(w1, w2) == w1 = w2 \/ Less(w1, w2)

TwoPow32 == [hi |-> Base, lo |-> 0]

\* the seven identifiers and their widths
Identifiers == {"2I", "2E", "4I", "4E", "2EE", "2BCD2", "A4E"}
WidthOf(k) == IF k \in {"2I", "2E", "2EE"} THEN 2 ELSE 4

\* the representable range of each variant
MinLen(k) == IF k = "2EE" THEN IntOf(2) ELSE IntOf(0)
MaxLen(k) ==
    CASE k = "2I"    -> IntOf(65533)
      [] k = "2E"    -> IntOf(65535)
      [] k = "4I"    -> AddInt(TwoPow32, -5)
      [] k = "4E"    -> AddInt(TwoPow32, -1)
      [] k = "2EE"   -> IntOf(65537)
      [] k = "2BCD2" -> IntOf(9995)
      [] k = "A4E"   -> IntOf(9999)
InRange(k, l) == k \in Identifiers /\ Leq(MinLen(k), l) /\ Leq(l, MaxLen(k))

\* the decimal value of four ASCII digits
FourDigits(b) ==
    ((b[1] - 48) * 1000) + ((b[2] - 48) * 100) + ((b[3] - 48) * 10) + (b[4] - 48)
AllDigits(b) == \A i \in 1..Len(b) : b[i] >= 48 /\ b[i] <= 57

\* the big-endian unsigned value of a 2-byte or 4-byte buffer
BigEndian(b) ==
    IF Len(b) = 2
    THEN [hi |-> 0, lo |-> (256 * b[1]) + b[2]]
    ELSE [hi |-> (256 * b[1]) + b[2], lo |-> (256 * b[3]) + b[4]]

\* the nibbles of bytes 2..3 (the third and fourth byte) and their decimal value
Nibbles(b) == << b[3] \div 16, b[3] % 16, b[4] \div 16, b[4] % 16 >>
BCDValid(b) == \A i \in 1..4 : Nibbles(b)[i] <= 9
BCDValue(b) ==
    (Nibbles(b)[1] * 1000) + (Nibbles(b)[2] * 100) + (Nibbles(b)[3] * 10) + Nibbles(b)[4]

\* the raw value of an inclusive variant's buffer
Raw(k, b) == IF k = "2BCD2" THEN IntOf(BCDValue(b)) ELSE BigEndian(b)

----------------------------------------------------------------------------
(* Properties of one call *)

\* C1: round trip: for each of the seven variants and each length in the
\* variant's representable range, Encode succeeds and Decode of the bytes it
\* returned gives the length back with no error.
RoundTrip ==
    (Encoded /\ InRange(key, length)) =>
        /\ res.err = "nil"
        /\ Decode(key, res.b) = [n |-> length, err |-> "nil"]

\* the upper end of the 4I range has been encoded
RoundTripWitness ==
    /\ Encoded /\ key = "4I" /\ length = MaxLen("4I")
    /\ res.b = << 255, 255, 255, 255 >>

\* C2: size rejection: for each of the seven variants, a buffer whose length
\* is not the variant's width decodes to length 0 and ErrByteSize, whatever
\* its bytes.
SizeRejection ==
    (Decoded /\ key \in Identifiers /\ Len(buf) # WidthOf(key)) =>
        res = [n |-> Zero, err |-> ErrByteSize]

\* a buffer one byte too long, starting with a sign, was given to A4E
SizeRejectionWitness ==
    /\ Decoded /\ key = "A4E" /\ Len(buf) = 5 /\ buf[1] = 45
    /\ res.err = ErrByteSize

\* C3: Decode never reports success with a negative length.
DecodeNonNegative == (Decoded /\ res.err = "nil") => ~IsNeg(res.n)

\* C4: negative rejection: for every selector, known or not, a negative
\* length makes Encode return the empty buffer and ErrLength.
NegativeRejection ==
    (Encoded /\ IsNeg(length)) => res = [b |-> << >>, err |-> ErrLength]

\* an unknown selector was given a negative length
NegativeRejectionWitness ==
    /\ Encoded /\ key = "bogus" /\ length = IntOf(-1)
    /\ res.err = ErrLength

\* C5: unknown variant rejection: a selector that is not one of the seven
\* identifiers makes Encode (length >= 0) return an error and the empty
\* buffer, and Decode return an error and length 0 for a buffer of any
\* length; the error is neither ErrByteSize nor ErrLength.
UnknownRejection ==
    /\ (Encoded /\ key \notin Identifiers /\ ~IsNeg(length)) =>
          (res.b = << >> /\ res.err \notin {"nil", ErrByteSize, ErrLength})
    /\ (Decoded /\ key \notin Identifiers) =>
          (res.n = Zero /\ res.err \notin {"nil", ErrByteSize, ErrLength})

\* a selector differing from a valid one only in case was given a buffer of
\* that variant's width
UnknownRejectionWitness ==
    /\ Decoded /\ key = "2i" /\ Len(buf) = 2
    /\ res.err = ErrInvalidType

\* C6: A4E decode rejects non-digit content: a 4-byte buffer with a byte
\* that is not an ASCII digit gives an error; a length without error is
\* returned only for four digits and is their decimal value.
A4ERejectsNonDigits ==
    (Decoded /\ key = "A4E" /\ Len(buf) = 4) =>
        /\ ~AllDigits(buf) => res.err # "nil"
        /\ AllDigits(buf) => res = [n |-> IntOf(FourDigits(buf)), err |-> "nil"]

\* C7: Encode of the text-based variants rejects values of more than four
\* decimal digits: A4E for every length >= 10000, 2BCD2 for every length
\* >= 0 with length + 4 >= 10000.
TextRangeRejection ==
    /\ (Encoded /\ key = "A4E" /\ Leq(IntOf(10000), length)) => res.err # "nil"
    /\ (Encoded /\ key = "2BCD2" /\ Leq(IntOf(10000), AddInt(length, 4))) =>
          res.err # "nil"

\* C8: fixed width: for each variant and each length in its representable
\* range, the buffer Encode returns has the variant's width, and for 2BCD2
\* its first two bytes are zero.
FixedWidth ==
    (Encoded /\ InRange(key, length)) =>
        /\ Len(res.b) = WidthOf(key)
        /\ key = "2BCD2" => (res.b[1] = 0 /\ res.b[2] = 0)

\* the upper end of the 2BCD2 range has been encoded
FixedWidthWitness ==
    /\ Encoded /\ key = "2BCD2" /\ length = IntOf(9995)
    /\ res.b = << 0, 0, 153, 153 >>

----------------------------------------------------------------------------
(* Properties of concurrent calls *)

\* C10: statelessness under concurrency: in every interleaving of the
\* callers' steps, what a call returned (value and error) is what the
\* function gives for that call's arguments alone; the package's empty slice
\* and its two error values are never changed; Decode leaves the caller's
\* buffer as it was.
Stateless ==
    /\ pkg = [empty |-> EmptyAddr, ErrByteSize |-> "ErrByteSize", ErrLength |-> "ErrLength"]
    /\ heap[EmptyAddr] = << >>
    /\ \A c \in Callers :
          /\ (cpc[c] # "idle" /\ cargs[c].op = "Decode") =>
                heap[cargs[c].b] = cargs[c].orig
          /\ (cpc[c] = "returned" /\ cargs[c].op = "Decode") =>
                cret[c] = Decode(cargs[c].key, cargs[c].orig)
          /\ (cpc[c] = "returned" /\ cargs[c].op = "Encode") =>
                [b |-> heap[cret[c].b], err |-> cret[c].err]
                    = Encode(cargs[c].key, cargs[c].length)

\* two callers hold the results of overlapping successful Encode calls of
\* different variants
StatelessWitness ==
    \E c, d \in Callers :
        /\ c # d
        /\ cpc[c] = "returned" /\ cpc[d] = "returned"
        /\ cargs[c].op = "Encode" /\ cargs[d].op = "Encode"
        /\ cargs[c].key = "2I" /\ cargs[d].key = "A4E"
        /\ cret[c].err = "nil" /\ cret[d].err = "nil"

----------------------------------------------------------------------------
(* Properties of the binary variants' encoding *)

\* what each binary variant adds to the length before writing it
Adjust(k) ==
    CASE k = "2I"  -> 2
      [] k = "2E"  -> 0
      [] k = "2EE" -> -2
      [] k = "4I"  -> 4
      [] k = "4E"  -> 0

\* w mod 2^16 and w mod 2^32
Mod2Pow16(w) == [hi |-> 0, lo |-> w.lo]
Mod2Pow32(w) == [hi |-> w.hi % 65536, lo |-> w.lo]

\* C11: Encode of a binary variant (2I, 2E, 2EE, 4I, 4E) with a length >= 0
\* never returns an error and returns the big-endian form, 2 or 4 bytes wide,
\* of the adjusted length (L + 2, L, L - 2, L + 4, L) modulo 2^16 or 2^32; so
\* 2EE wraps L = 0 and L = 1 to 65534 and 65535, and Encode(2I, 43) = 00 2d,
\* Encode(4I, 49) = 00 00 00 35, Encode(2EE, 56) = 00 36.
BinaryTruncation ==
    (Encoded /\ key \in {"2I", "2E", "2EE", "4I", "4E"} /\ ~IsNeg(length)) =>
        /\ res.err = "nil"
        /\ Len(res.b) = WidthOf(key)
        /\ BigEndian(res.b) =
              IF WidthOf(key) = 2
              THEN Mod2Pow16(AddInt(length, Adjust(key)))
              ELSE Mod2Pow32(AddInt(length, Adjust(key)))
        /\ (key = "2I" /\ length = IntOf(43)) => res.b = << 0, 45 >>
        /\ (key = "4I" /\ length = IntOf(49)) => res.b = << 0, 0, 0, 53 >>
        /\ (key = "2EE" /\ length = IntOf(56)) => res.b = << 0, 54 >>
        /\ (key = "2EE" /\ length = IntOf(0)) => res.b = << 255, 254 >>
        /\ (key = "2EE" /\ length = IntOf(1)) => res.b = << 255, 255 >>

\* a 2I length whose adjusted value is 2^16 was encoded, and wrapped to zero
BinaryTruncationWitness ==
    /\ Encoded /\ key = "2I" /\ length = IntOf(65534)
    /\ res = [b |-> << 0, 0 >>, err |-> "nil"]

====
